---- MODULE Spec2Model ----
(***************************************************************************)
(* RelativeAddonsSystem: the installed-libraries cache and the requirement *)
(* resolver of libraries.py, and the Addon aggregate of addon/__init__.py  *)
(* (requirement check and install, descriptor save, module handle).        *)
(***************************************************************************)
EXTENDS Integers, Sequences, FiniteSets, TLC

VARIABLES
    pip,                  \* the package manager's installed set: [lower name -> version]
    installed_libraries,  \* ContextVar("installed_libraries"): [context -> dict]
    history,              \* per context: what its list calls have returned so far
    meta,                 \* Addon._meta, the in-memory descriptor mapping
    meta_path,            \* the file the Addon was constructed to read its metadata from
    fs,                   \* the addon directory: [file name -> [exists, data]]
    saving,               \* the descriptor write in progress: the open file and what is left to write
    module,               \* Addon._module and how often the unit has been executed
    lastCall,             \* what the latest call did and returned
    dir,                  \* the addon directory exists
    constructed,          \* Addon.__init__ has returned an instance
    config,               \* Addon._config and the AddonConfig objects built so far
    heap,                 \* the dict objects of libraries.py: [object id -> content]
    cacheObj,             \* the object the ContextVar holds in each context
    refresh,              \* per context: the get_installed_libraries call in progress
    held,                 \* a reference an earlier call returned and its caller kept
    cycle                 \* observer of an install, forced list, check sequence

threadVars == <<heap, cacheObj, refresh, held>>
lifeVars == <<dir, constructed, config>>
inventoryVars == <<pip, installed_libraries, history, cycle, threadVars>>
addonVars == <<meta_path, fs, saving, module, lifeVars>>
vars == <<pip, installed_libraries, history, meta, meta_path, fs, saving, module, lastCall,
          dir, constructed, config, heap, cacheObj, refresh, held, cycle>>

(***************************************************************************)
(* Bounds.                                                                 *)
(***************************************************************************)
MaxReqs == 2
MaxReloads == 2
MaxConfigs == 2
MaxObjects == 2

(***************************************************************************)
(* Strings of the model.                                                   *)
(***************************************************************************)
Libs == {"bar", "foo"}
RequirementNames == {"Foo", "bar"}
PipVersions == {"1.1.0", "1.2.0"}
Constraints == {"*", "1.2.0"}
Contexts == {"main", "worker"}

\* str.lower() on the names the model uses
lower(s) ==
    CASE s = "Foo" -> "foo"
      [] s = "Bar" -> "bar"
      [] OTHER -> s

\* the project name as `pip freeze` prints it
DisplayName(lib) == IF lib = "bar" THEN "Bar" ELSE lib

\* a dotted version string as its numeric components
ParseVersion(v) ==
    CASE v = "1.1.0" -> <<1, 1, 0>>
      [] v = "1.2.0" -> <<1, 2, 0>>
      [] v = "1.1" -> <<1, 1>>
      [] v = "1.2" -> <<1, 2>>

Pad(c, n) == [i \in 1..n |-> IF i <= Len(c) THEN c[i] ELSE 0]

\* actual >= required, component-wise from the left, the shorter zero-padded
VersionGE(actual, required) ==
    LET n == IF Len(actual) >= Len(required) THEN Len(actual) ELSE Len(required)
        a == Pad(actual, n)
        r == Pad(required, n)
    IN  \/ a = r
        \/ \E i \in 1..n : a[i] > r[i] /\ \A j \in 1..(i - 1) : a[j] = r[j]

\* utils.check_version(required, actual)
check_version(required, actual) ==
    \/ required = "*"
    \/ VersionGE(ParseVersion(actual), ParseVersion(required))

\* utils.version_tranform.to_library_version(version)
to_library_version(version) == version

(***************************************************************************)
(* Python dicts as functions on a subset of the keys.                      *)
(***************************************************************************)
EmptyDict == [k \in {} |-> ""]
DictSet(d, k, v) == [x \in (DOMAIN d) \cup {k} |-> IF x = k THEN v ELSE d[x]]
Dicts == UNION {[D -> PipVersions] : D \in SUBSET Libs}

(***************************************************************************)
(* The package manager, as the two subprocess calls see it.                *)
(***************************************************************************)
LibOrder == <<"bar", "foo">>

\* one line of `pip freeze`, as the tokens around its "==" separators
FreezeLine(p, lib) == <<DisplayName(lib), "==", p[lib]>>

RECURSIVE FreezeLines(_, _)
FreezeLines(p, order) ==
    IF order = <<>> THEN <<>>
    ELSE IF Head(order) \in DOMAIN p
         THEN <<FreezeLine(p, Head(order))>> \o FreezeLines(p, Tail(order))
         ELSE FreezeLines(p, Tail(order))

QueryOutcomes == {"ok", "malformed", "unreachable"}

\* subprocess.getoutput("pip freeze").splitlines()
PipFreeze(p, outcome) ==
    CASE outcome = "ok" -> FreezeLines(p, LibOrder)
      [] outcome = "malformed" ->
            FreezeLines(p, LibOrder) \o << <<"-e git+https://example.org/pkg#egg=pkg">> >>
      [] outcome = "unreachable" -> << <<"/bin/sh: 1: pip: not found">> >>

\* line.lower().split("==")
split(line) ==
    IF line = <<>> THEN <<"">>
    ELSE LET fields == SelectSeq(line, LAMBDA t : t # "==")
         IN  [i \in 1..Len(fields) |-> lower(fields[i])]

(***************************************************************************)
(* The observer of one install_requirements, get_installed_libraries(True) *)
(* sequence. It follows the calls of the program: "start" until an install *)
(* returns, "installed" until a forced list returns after it, "refreshed"  *)
(* from then on; a change of the package manager's set from outside or a   *)
(* failed install starts it over. sound records what the install found:    *)
(* every requirement its cache satisfied was satisfied by the package      *)
(* manager's set; emitted, that it handed a batch to the installer.        *)
(* "off": the sequence is not observed.                                    *)
(***************************************************************************)
CycleOff == [phase |-> "off", sound |-> FALSE, emitted |-> FALSE]
CycleStart == [phase |-> "start", sound |-> FALSE, emitted |-> FALSE]

CycleAfterList(cy, force, raised) ==
    IF cy.phase = "installed" /\ force /\ ~raised
    THEN [cy EXCEPT !.phase = "refreshed"]
    ELSE cy

CycleAfterInstall(cy, raised, emitted, sound) ==
    IF cy.phase = "off" THEN cy
    ELSE IF raised THEN CycleStart
    ELSE IF cy.phase = "refreshed" /\ ~emitted THEN cy
    ELSE [phase |-> "installed", sound |-> sound, emitted |-> emitted]

CycleAfterChange(cy) == IF cy.phase = "off" THEN cy ELSE CycleStart

(***************************************************************************)
(* libraries.get_installed_libraries                                       *)
(***************************************************************************)
\* the for loop of lines 22-24; `name, version = ...` raises unless two fields
RECURSIVE ParseLines(_, _)
ParseLines(lines, libs) ==
    IF lines = <<>> THEN [raised |-> FALSE, libs |-> libs]
    ELSE LET parts == split(Head(lines))
         IN  IF Len(parts) # 2
             THEN [raised |-> TRUE, libs |-> libs]
             ELSE ParseLines(Tail(lines), DictSet(libs, parts[1], parts[2]))

\* a variant that fills the cached dict in place, line by line
GetInstalledLibraries_InPlace(cache, force, pipOut) ==
    IF force \/ Cardinality(DOMAIN cache) = 0
    THEN LET r == ParseLines(pipOut, EmptyDict)
         IN  IF r.raised
             THEN [raised |-> TRUE, cache |-> r.libs, result |-> EmptyDict, queried |-> TRUE]
             ELSE [raised |-> FALSE, cache |-> r.libs, result |-> r.libs, queried |-> TRUE]
    ELSE [raised |-> FALSE, cache |-> cache, result |-> cache, queried |-> FALSE]

\* a variant that tests only `len(installed_libraries.get()) == 0`
GetInstalledLibraries_IgnoresForce(cache, force, pipOut) ==
    IF Cardinality(DOMAIN cache) = 0
    THEN LET r == ParseLines(pipOut, EmptyDict)
         IN  IF r.raised
             THEN [raised |-> TRUE, cache |-> cache, result |-> EmptyDict, queried |-> TRUE]
             ELSE [raised |-> FALSE, cache |-> r.libs, result |-> r.libs, queried |-> TRUE]
    ELSE [raised |-> FALSE, cache |-> cache, result |-> cache, queried |-> FALSE]

\* the call on one context's cache: the cache after it, what it returns, and
\* whether it ran `pip freeze` (result is a placeholder when raised)
GetInstalledLibraries(cache, force, pipOut) ==
    IF force \/ Cardinality(DOMAIN cache) = 0
    THEN LET r == ParseLines(pipOut, EmptyDict)
         IN  IF r.raised
             THEN [raised |-> TRUE, cache |-> cache, result |-> EmptyDict, queried |-> TRUE]
             ELSE [raised |-> FALSE, cache |-> r.libs, result |-> r.libs, queried |-> TRUE]
    ELSE [raised |-> FALSE, cache |-> cache, result |-> cache, queried |-> FALSE]

\* the history of one context's list calls, kept beside the cache:
\*   listed/map: a list call has completed since the latest forced call, and
\*               the mapping the latest completed call returned;
\*   failed/held: a query has failed since the latest successful query, and
\*               the cache as it was when the latest query failed
\* lastCall.pre is the calling context's cache as the call found it (left blank
\* by a forced refresh that succeeded, which replaces it whatever it was), and
\* lastCall.before the context's history as a non-forced list call found it.
NoHistory == [listed |-> FALSE, map |-> EmptyDict, failed |-> FALSE, held |-> EmptyDict]

HistoryAfter(h, force, cache, r) ==
    [listed |-> IF r.raised THEN (h.listed /\ ~force) ELSE TRUE,
     map    |-> IF r.raised THEN (IF force THEN EmptyDict ELSE h.map) ELSE r.result,
     failed |-> IF r.raised THEN TRUE ELSE (h.failed /\ ~r.queried),
     held   |-> IF r.raised THEN cache
                ELSE IF h.failed /\ ~r.queried THEN h.held ELSE EmptyDict]

get_installed_libraries(c, force, outcome) ==
    LET cache == installed_libraries[c]
        r == GetInstalledLibraries(cache, force, PipFreeze(pip, outcome))
    IN  /\ installed_libraries' = [installed_libraries EXCEPT ![c] = r.cache]
        /\ history' = [history EXCEPT ![c] = HistoryAfter(@, force, cache, r)]
        /\ lastCall' = [op |-> "list", ctx |-> c, force |-> force,
                        raised |-> r.raised, queried |-> r.queried,
                        result |-> r.result,
                        pre |-> IF force /\ ~r.raised THEN EmptyDict ELSE cache,
                        before |-> IF force THEN NoHistory ELSE history[c]]
        /\ cycle' = CycleAfterList(cycle, force, r.raised)
        /\ UNCHANGED <<pip, meta, addonVars, threadVars>>

(***************************************************************************)
(* Addon.check_requirements                                                *)
(***************************************************************************)
\* a variant with the `return False` lines inside the `if alert:` blocks
RECURSIVE CheckLoop_ReturnUnderAlert(_, _, _, _)
CheckLoop_ReturnUnderAlert(m, reqs, installed, alert) ==
    IF reqs = <<>> THEN [result |-> TRUE, warnings |-> <<>>]
    ELSE LET requirement == Head(reqs)
             key == lower(requirement.name)
         IN  IF key \in DOMAIN installed /\ check_version(requirement.version, installed[key])
             THEN CheckLoop_ReturnUnderAlert(m, Tail(reqs), installed, alert)
             ELSE IF alert
             THEN [result |-> FALSE,
                   warnings |-> <<[kind |-> IF key \in DOMAIN installed
                                            THEN "version" ELSE "not installed",
                                   addon |-> m.name, library |-> requirement.name,
                                   required |-> requirement.version,
                                   current |-> IF key \in DOMAIN installed
                                               THEN installed[key] ELSE ""]>>]
             ELSE CheckLoop_ReturnUnderAlert(m, Tail(reqs), installed, alert)

\* the for loop of lines 133-162: the first unmet requirement ends it
RECURSIVE CheckLoop(_, _, _, _)
CheckLoop(m, reqs, installed, alert) ==
    IF reqs = <<>> THEN [result |-> TRUE, warnings |-> <<>>]
    ELSE LET requirement == Head(reqs)
             key == lower(requirement.name)
         IN  IF key \notin DOMAIN installed
             THEN [result |-> FALSE,
                   warnings |-> IF alert
                                THEN <<[kind |-> "not installed", addon |-> m.name,
                                        library |-> requirement.name,
                                        required |-> requirement.version,
                                        current |-> ""]>>
                                ELSE <<>>]
             ELSE IF check_version(requirement.version, installed[key])
             THEN CheckLoop(m, Tail(reqs), installed, alert)
             ELSE [result |-> FALSE,
                   warnings |-> IF alert
                                THEN <<[kind |-> "version", addon |-> m.name,
                                        library |-> requirement.name,
                                        required |-> requirement.version,
                                        current |-> installed[key]]>>
                                ELSE <<>>]

\* the whole call on one context's cache (result is a placeholder when raised)
CheckRequirements(m, cache, alert, pipOut) ==
    LET got == GetInstalledLibraries(cache, FALSE, pipOut)
        chk == CheckLoop(m, m.requirements, got.result, alert)
    IN  IF got.raised
        THEN [raised |-> TRUE, cache |-> got.cache, queried |-> got.queried,
              result |-> FALSE, warnings |-> <<>>, got |-> got]
        ELSE [raised |-> FALSE, cache |-> got.cache, queried |-> got.queried,
              result |-> chk.result, warnings |-> chk.warnings, got |-> got]

check_requirements(c, alert, outcome) ==
    LET cache == installed_libraries[c]
        r == CheckRequirements(meta, cache, alert, PipFreeze(pip, outcome))
    IN  /\ installed_libraries' = [installed_libraries EXCEPT ![c] = r.cache]
        /\ history' = [history EXCEPT ![c] = HistoryAfter(@, FALSE, cache, r.got)]
        /\ lastCall' = [op |-> "check", ctx |-> c, alert |-> alert,
                        raised |-> r.raised, queried |-> r.queried,
                        result |-> r.result, warnings |-> r.warnings,
                        pre |-> cache]
        /\ UNCHANGED <<pip, meta, addonVars, threadVars, cycle>>

(***************************************************************************)
(* libraries.install_libraries, Addon.install_requirements                 *)
(***************************************************************************)
\* lines 35-37 and 41-43: the specifier of one requirement
Specifier(requirement) ==
    LET name == lower(requirement.name)
    IN  IF requirement.version # "*"
        THEN name \o "==" \o to_library_version(requirement.version)
        ELSE name

\* a variant without the elif branch of line 40
RECURSIVE CollectNames_NoVersionBranch(_, _)
CollectNames_NoVersionBranch(libraries, installed) ==
    IF libraries = <<>> THEN <<>>
    ELSE LET requirement == Head(libraries)
             key == lower(requirement.name)
             rest == CollectNames_NoVersionBranch(Tail(libraries), installed)
         IN  IF key \notin DOMAIN installed
             THEN <<Specifier(requirement)>> \o rest
             ELSE rest

\* the for loop of lines 33-45, reading the cache as it is
RECURSIVE CollectNames(_, _)
CollectNames(libraries, installed) ==
    IF libraries = <<>> THEN <<>>
    ELSE LET requirement == Head(libraries)
             key == lower(requirement.name)
             rest == CollectNames(Tail(libraries), installed)
         IN  IF key \notin DOMAIN installed
             THEN <<Specifier(requirement)>> \o rest
             ELSE IF ~check_version(requirement.version, installed[key])
             THEN <<Specifier(requirement)>> \o rest
             ELSE rest

\* the installer's output, as its lines
InstallerOutputs ==
    { <<"Collecting ...", "Successfully installed">>,
      <<"Collecting ...", "ERROR: No matching distribution found">>,
      <<"ERROR: Could not find a version that satisfies the requirement">> }

\* "ERROR" in out
HasErrorMarker(out) ==
    \E i \in 1..Len(out) :
        out[i] \in {"ERROR: No matching distribution found",
                    "ERROR: Could not find a version that satisfies the requirement"}

\* what the package manager installs for one specifier
LatestVersion == "1.2.0"
Release(v) == IF v = "1.1" THEN "1.1.0" ELSE IF v = "1.2" THEN "1.2.0" ELSE v

SpecifierLib(s) ==
    lower(CHOOSE n \in Libs \cup RequirementNames :
              s = n \/ \E v \in Constraints : s = n \o "==" \o v)

PipInstallOne(p, s) ==
    LET lib == SpecifierLib(s)
    IN  IF s \in Libs \cup RequirementNames
        THEN IF lib \in DOMAIN p THEN p ELSE DictSet(p, lib, LatestVersion)
        ELSE DictSet(p, lib, Release(CHOOSE v \in Constraints : s = lib \o "==" \o v))

\* `pip install` having applied the first k specifiers of the batch
RECURSIVE PipInstall(_, _, _)
PipInstall(p, names, k) ==
    IF k = 0 \/ names = <<>> THEN p
    ELSE PipInstall(PipInstallOne(p, Head(names)), Tail(names), k - 1)

\* a variant that never looks for the marker
InstallLibraries_NoMarkerScan(libraries, cache, out) ==
    LET names == CollectNames(libraries, cache)
    IN  IF Len(names) # 0
        THEN [raised |-> FALSE, result |-> names, batches |-> <<names>>, message |-> <<>>]
        ELSE [raised |-> FALSE, result |-> names, batches |-> <<>>, message |-> <<>>]

\* a variant that runs the installer once per collected name
InstallLibraries_OnePerName(libraries, cache, out) ==
    LET names == CollectNames(libraries, cache)
        each == [i \in 1..Len(names) |-> <<names[i]>>]
    IN  IF Len(names) # 0
        THEN IF HasErrorMarker(out)
             THEN [raised |-> TRUE, result |-> <<>>, batches |-> each,
                   message |-> <<"Error occurred while installing: ">> \o out]
             ELSE [raised |-> FALSE, result |-> names, batches |-> each,
                   message |-> <<>>]
        ELSE [raised |-> FALSE, result |-> names, batches |-> <<>>, message |-> <<>>]

\* the whole call: the names, the batches handed to `pip install`, the outcome
InstallLibraries(libraries, cache, out) ==
    LET names == CollectNames(libraries, cache)
    IN  IF Len(names) # 0
        THEN IF HasErrorMarker(out)
             THEN [raised |-> TRUE, result |-> <<>>, batches |-> <<names>>,
                   message |-> <<"Error occurred while installing: ">> \o out]
             ELSE [raised |-> FALSE, result |-> names, batches |-> <<names>>,
                   message |-> <<>>]
        ELSE [raised |-> FALSE, result |-> names, batches |-> <<>>, message |-> <<>>]

\* every requirement the cache satisfies is satisfied by the installed set p
CacheNotAhead(m, cache, p) ==
    \A i \in 1..Len(m.requirements) :
        CheckLoop(m, <<m.requirements[i]>>, cache, FALSE).result
            => CheckLoop(m, <<m.requirements[i]>>, p, FALSE).result

\* a variant that drops the cache after a batch was handed to the installer
install_requirements_Invalidating(c, out, k) ==
    LET addon_requirements == meta.requirements
        cache == installed_libraries[c]
        r == InstallLibraries(addon_requirements, cache, out)
    IN  /\ k \in 0..Len(CollectNames(addon_requirements, cache))
        /\ r.raised \/ k = Len(CollectNames(addon_requirements, cache))
        /\ pip' = IF r.batches = <<>> THEN pip ELSE PipInstall(pip, r.batches[1], k)
        /\ installed_libraries' =
               IF r.batches = <<>> THEN installed_libraries
               ELSE [installed_libraries EXCEPT ![c] = EmptyDict]
        /\ lastCall' = [op |-> "install", ctx |-> c, raised |-> r.raised,
                        result |-> r.result, batches |-> r.batches,
                        message |-> r.message, out |-> out, pre |-> cache]
        /\ cycle' = CycleAfterInstall(cycle, r.raised, r.batches # <<>>,
                                      CacheNotAhead(meta, cache, pip))
        /\ UNCHANGED <<history, meta, addonVars, threadVars>>

install_requirements(c, out, k) ==
    LET addon_requirements == meta.requirements
        cache == installed_libraries[c]
        r == InstallLibraries(addon_requirements, cache, out)
    IN  /\ k \in 0..Len(CollectNames(addon_requirements, cache))
        /\ r.raised \/ k = Len(CollectNames(addon_requirements, cache))
        /\ pip' = IF r.batches = <<>> THEN pip ELSE PipInstall(pip, r.batches[1], k)
        /\ lastCall' = [op |-> "install", ctx |-> c, raised |-> r.raised,
                        result |-> r.result, batches |-> r.batches,
                        message |-> r.message, out |-> out, pre |-> cache]
        /\ cycle' = CycleAfterInstall(cycle, r.raised, r.batches # <<>>,
                                      CacheNotAhead(meta, cache, pip))
        /\ UNCHANGED <<installed_libraries, history, meta, addonVars, threadVars>>

(***************************************************************************)
(* The package manager's set changes outside the program.                  *)
(***************************************************************************)
PipInstalls(lib, v) ==
    /\ pip' = DictSet(pip, lib, v)
    /\ pip' # pip
    /\ cycle' = CycleAfterChange(cycle)
    /\ UNCHANGED <<installed_libraries, history, meta, addonVars, threadVars, lastCall>>

PipUninstalls(lib) ==
    /\ lib \in DOMAIN pip
    /\ pip' = [x \in (DOMAIN pip) \ {lib} |-> pip[x]]
    /\ cycle' = CycleAfterChange(cycle)
    /\ UNCHANGED <<installed_libraries, history, meta, addonVars, threadVars, lastCall>>

(***************************************************************************)
(* The descriptor document and the files of the addon directory.           *)
(***************************************************************************)
Requirements == [name : RequirementNames, version : Constraints]

RequirementLists == UNION {[1..n -> Requirements] : n \in 0..MaxReqs}

Statuses == {"enabled", "disabled"}

Metas(statuses, reqLists) ==
    [name : {"addon"}, version : {"0.1"}, status : statuses, requirements : reqLists]

RECURSIVE RequirementsText(_)
RequirementsText(reqs) ==
    IF reqs = <<>> THEN ""
    ELSE "{" \o Head(reqs).name \o " " \o Head(reqs).version \o "}"
         \o RequirementsText(Tail(reqs))

\* json.dump(meta, f, indent=4): the chunks it hands to f.write, in key order
Serialize(m) ==
    <<"{",
      "name: " \o m.name,
      "version: " \o m.version,
      "status: " \o m.status,
      "requirements: [" \o RequirementsText(m.requirements) \o "]",
      "}">>

\* json.load of a file's content: defined on complete documents only
Parseable(data) == \E m \in Metas(Statuses, RequirementLists) : Serialize(m) = data
Parse(data) == CHOOSE m \in Metas(Statuses, RequirementLists) : Serialize(m) = data

Files == {"addon.json", "meta.json"}
NoFile == [exists |-> FALSE, data |-> <<>>]
FileOf(data) == [exists |-> TRUE, data |-> data]
Idle == [busy |-> FALSE, file |-> "", rest |-> <<>>]

(***************************************************************************)
(* Addon.enable, Addon.disable: set the status, rewrite path/addon.json.   *)
(* open(..., "w") truncates the file; json.dump then writes it chunk by    *)
(* chunk; the write can fail or be interrupted after any chunk.            *)
(***************************************************************************)
\* the file enable() and disable() open
SaveTarget(mp) == "addon.json"

SetStatusAndOpen(op, status) ==
    LET target == SaveTarget(meta_path)
    IN  /\ constructed
        /\ ~saving.busy
        /\ meta' = [meta EXCEPT !.status = status]
        /\ IF dir
           THEN /\ fs' = [fs EXCEPT ![target] = FileOf(<<>>)]
                /\ saving' = [busy |-> TRUE, file |-> target, rest |-> Serialize(meta')]
           ELSE UNCHANGED <<fs, saving>>       \* open() finds no directory and raises
        /\ lastCall' = [op |-> op, status |-> status, done |-> FALSE, raised |-> ~dir,
                        preMeta |-> meta, preFiles |-> fs]
        /\ UNCHANGED <<inventoryVars, meta_path, module, lifeVars>>

enable == SetStatusAndOpen("enable", "enabled")

disable == SetStatusAndOpen("disable", "disabled")

\* one f.write of json.dump; the with block closes the file after the last one
save_write ==
    /\ saving.busy
    /\ fs' = [fs EXCEPT ![saving.file] = FileOf(@.data \o <<Head(saving.rest)>>)]
    /\ saving' = IF Len(saving.rest) = 1 THEN Idle
                 ELSE [saving EXCEPT !.rest = Tail(@)]
    /\ lastCall' = [lastCall EXCEPT !.done = (Len(saving.rest) = 1)]
    /\ UNCHANGED <<inventoryVars, meta, meta_path, module, lifeVars>>

\* a write fails (or the call is interrupted): the exception leaves the with block
save_fails ==
    /\ saving.busy
    /\ saving' = Idle
    /\ lastCall' = [lastCall EXCEPT !.raised = TRUE]
    /\ UNCHANGED <<inventoryVars, meta, meta_path, fs, module, lifeVars>>

(***************************************************************************)
(* The module handle: Addon.module, get_module, set_module, reload_module. *)
(* imports counts the executions importlib.import_module made of the unit, *)
(* reexecutions those utils.recursive_reload_module made.                  *)
(***************************************************************************)
Unloaded == [loaded |-> FALSE, imports |-> 0, reexecutions |-> 0]
LoaderOutcomes == {"ok", "fails"}

\* a variant of the property without the `if not self._module` test
GetModule_AlwaysImports(h, outcome) ==
    IF outcome = "ok"
    THEN [raised |-> FALSE, handle |-> [h EXCEPT !.loaded = TRUE, !.imports = @ + 1]]
    ELSE [raised |-> TRUE, handle |-> h]

\* a variant that binds self._module before the import has succeeded
GetModule_BindsFirst(h, outcome) ==
    IF ~h.loaded
    THEN IF outcome = "ok"
         THEN [raised |-> FALSE, handle |-> [h EXCEPT !.loaded = TRUE, !.imports = @ + 1]]
         ELSE [raised |-> TRUE, handle |-> [h EXCEPT !.loaded = TRUE]]
    ELSE [raised |-> FALSE, handle |-> h]

\* the module property (lines 75-84), which get_module returns
GetModule(h, outcome) ==
    IF ~h.loaded
    THEN IF outcome = "ok"
         THEN [raised |-> FALSE, handle |-> [h EXCEPT !.loaded = TRUE, !.imports = @ + 1]]
         ELSE [raised |-> TRUE, handle |-> h]
    ELSE [raised |-> FALSE, handle |-> h]

\* utils.recursive_reload_module(module), handed what self._module holds
RecursiveReload(h, outcome) ==
    IF h.loaded /\ outcome = "ok"
    THEN [raised |-> FALSE, handle |-> [h EXCEPT !.reexecutions = @ + 1]]
    ELSE [raised |-> TRUE, handle |-> h]

\* a variant of reload_module without the implicit load of lines 97-98
ReloadModule_NoImplicitLoad(h, loadOutcome, reloadOutcome) ==
    RecursiveReload(h, reloadOutcome)

\* reload_module (lines 96-106)
ReloadModule(h, loadOutcome, reloadOutcome) ==
    LET got == IF ~h.loaded THEN GetModule(h, loadOutcome)
               ELSE [raised |-> FALSE, handle |-> h]
    IN  IF got.raised THEN got
        ELSE RecursiveReload(got.handle, reloadOutcome)

get_module(outcome) ==
    LET r == GetModule(module, outcome)
    IN  /\ constructed
        /\ ~saving.busy
        /\ outcome = "ok" /\ ~module.loaded => dir    \* nothing to import without the directory
        /\ module' = r.handle
        /\ lastCall' = [op |-> "load", raised |-> r.raised, pre |-> module,
                        loadOutcome |-> outcome, reloadOutcome |-> "ok",
                        preMeta |-> meta, preFiles |-> fs, preConfig |-> config,
                        preCache |-> installed_libraries]
        /\ UNCHANGED <<inventoryVars, meta, meta_path, fs, saving, lifeVars>>

reload_module(loadOutcome, reloadOutcome) ==
    LET r == ReloadModule(module, loadOutcome, reloadOutcome)
    IN  /\ constructed
        /\ ~saving.busy
        /\ module.reexecutions < MaxReloads
        /\ loadOutcome = "ok" /\ ~module.loaded => dir
        /\ reloadOutcome = "ok" => dir             \* nothing to re-execute without it
        /\ module' = r.handle
        /\ lastCall' = [op |-> "reload", raised |-> r.raised, pre |-> module,
                        loadOutcome |-> loadOutcome, reloadOutcome |-> reloadOutcome,
                        preMeta |-> meta, preFiles |-> fs, preConfig |-> config,
                        preCache |-> installed_libraries]
        /\ UNCHANGED <<inventoryVars, meta, meta_path, fs, saving, lifeVars>>

(***************************************************************************)
(* libraries.get_installed_libraries step by step, for callers in several  *)
(* contexts (threads). The dicts are objects: object 0 is the `default={}` *)
(* of the ContextVar, which every context sees until it has set its own;   *)
(* line 20 makes a new dict, lines 22-24 fill it, line 26 sets it. An      *)
(* object nothing refers to any more is freed. complete marks the objects  *)
(* whose filling has ended. The history of the list calls is not followed  *)
(* here.                                                                   *)
(***************************************************************************)
ObjIds == 0..MaxObjects
DefaultObj == 0
NoObject == [used |-> FALSE, data |-> EmptyDict, complete |-> FALSE]
FreshObject == [used |-> TRUE, data |-> EmptyDict, complete |-> TRUE]
NewDict == [used |-> TRUE, data |-> EmptyDict, complete |-> FALSE]
NotRefreshing == [pc |-> "idle", force |-> FALSE, lines |-> <<>>, output |-> <<>>,
                  libs |-> DefaultObj, shared |-> FALSE]
NothingHeld == [any |-> FALSE, ref |-> DefaultObj, seen |-> EmptyDict]

\* the object ids something still refers to
Roots(co, rf, hd) ==
    {DefaultObj} \cup {co[c] : c \in Contexts}
                \cup {rf[c].libs : c \in {x \in Contexts : rf[x].pc = "parsing"}}
                \cup (IF hd.any THEN {hd.ref} ELSE {})

Collect(h, roots) == [o \in ObjIds |-> IF o \in roots THEN h[o] ELSE NoObject]

Alloc(h) == CHOOSE o \in ObjIds : ~h[o].used /\ \A o2 \in ObjIds : ~h[o2].used => o <= o2

\* another context holds a snapshot with entries when context c calls
OtherSnapshot(c) ==
    \E x \in Contexts \ {c} : Cardinality(DOMAIN heap[cacheObj[x]].data) # 0

\* the caller keeps the reference it was returned, or lets it go
Keep(keep, ref, data) ==
    IF keep THEN [any |-> TRUE, ref |-> ref, seen |-> data] ELSE held

\* a variant of lines 17-20 that empties the cached dict and fills it in place
list_begin_InPlace(c, force, outcome, keep) ==
    LET cached == heap[cacheObj[c]].data
    IN  /\ refresh[c].pc = "idle"
        /\ IF force \/ Cardinality(DOMAIN cached) = 0
           THEN /\ ~keep
                /\ refresh' = [refresh EXCEPT ![c] =
                       [pc |-> "parsing", force |-> force, lines |-> PipFreeze(pip, outcome),
                        output |-> PipFreeze(pip, outcome), libs |-> cacheObj[c],
                        shared |-> OtherSnapshot(c)]]
                /\ heap' = [heap EXCEPT ![cacheObj[c]] = NewDict]
                /\ UNCHANGED <<held, lastCall>>
           ELSE /\ outcome = "ok"
                /\ held' = Keep(keep, cacheObj[c], cached)
                /\ heap' = Collect(heap, Roots(cacheObj, refresh, held'))
                /\ lastCall' = [op |-> "list", ctx |-> c, force |-> force, raised |-> FALSE,
                                queried |-> FALSE, shared |-> OtherSnapshot(c)]
                /\ UNCHANGED refresh
        /\ UNCHANGED <<pip, installed_libraries, history, cacheObj, cycle, meta, addonVars>>

\* lines 17-20: return the cached dict, or run `pip freeze` and make a new dict
list_begin(c, force, outcome, keep) ==
    LET cached == heap[cacheObj[c]].data
    IN  /\ refresh[c].pc = "idle"
        /\ IF force \/ Cardinality(DOMAIN cached) = 0
           THEN /\ ~keep
                /\ \E o \in ObjIds : ~heap[o].used
                /\ refresh' = [refresh EXCEPT ![c] =
                       [pc |-> "parsing", force |-> force, lines |-> PipFreeze(pip, outcome),
                        output |-> PipFreeze(pip, outcome), libs |-> Alloc(heap),
                        shared |-> OtherSnapshot(c)]]
                /\ heap' = [heap EXCEPT ![Alloc(heap)] = NewDict]
                /\ UNCHANGED <<held, lastCall>>
           ELSE /\ outcome = "ok"
                /\ held' = Keep(keep, cacheObj[c], cached)
                /\ heap' = Collect(heap, Roots(cacheObj, refresh, held'))
                /\ lastCall' = [op |-> "list", ctx |-> c, force |-> force, raised |-> FALSE,
                                queried |-> FALSE, shared |-> OtherSnapshot(c)]
                /\ UNCHANGED refresh
        /\ UNCHANGED <<pip, installed_libraries, history, cacheObj, cycle, meta, addonVars>>

\* lines 22-24, one line of the output: libs[name] = version, or the unpacking raises
list_line(c) ==
    LET r == refresh[c]
        parts == split(Head(r.lines))
    IN  /\ r.pc = "parsing"
        /\ r.lines # <<>>
        /\ IF Len(parts) # 2
           THEN /\ refresh' = [refresh EXCEPT ![c] = NotRefreshing]
                /\ heap' = Collect(heap, Roots(cacheObj, refresh', held))
                /\ lastCall' = [op |-> "list", ctx |-> c, force |-> r.force, raised |-> TRUE,
                                queried |-> TRUE, shared |-> r.shared]
           ELSE /\ refresh' = [refresh EXCEPT ![c].lines = Tail(@)]
                /\ heap' = [heap EXCEPT ![r.libs].data = DictSet(@, parts[1], parts[2])]
                /\ UNCHANGED lastCall
        /\ UNCHANGED <<pip, installed_libraries, history, cacheObj, held, cycle, meta, addonVars>>

\* lines 26-28 after the last line: set the new dict, get it, return it
list_commit(c, keep) ==
    LET r == refresh[c]
        libs == heap[r.libs].data
    IN  /\ r.pc = "parsing"
        /\ r.lines = <<>>
        /\ cacheObj' = [cacheObj EXCEPT ![c] = r.libs]
        /\ installed_libraries' = [installed_libraries EXCEPT ![c] = libs]
        /\ refresh' = [refresh EXCEPT ![c] = NotRefreshing]
        /\ held' = Keep(keep, r.libs, libs)
        /\ heap' = Collect([heap EXCEPT ![r.libs].complete = TRUE],
                           Roots(cacheObj', refresh', held'))
        /\ lastCall' = [op |-> "list", ctx |-> c, force |-> r.force, raised |-> FALSE,
                        queried |-> TRUE, shared |-> r.shared]
        /\ UNCHANGED <<pip, history, cycle, meta, addonVars>>

(***************************************************************************)
(* Addon.__init__, the meta property, get_config, remove.                  *)
(***************************************************************************)
\* self._meta before a descriptor was read
NoMeta == [name |-> "", version |-> "", status |-> "", requirements |-> <<>>]

\* AddonMeta(meta_path) is not in this repository's sources. It either reads
\* the file when constructed (line 30), or when `self.meta.name` asks it for
\* a key (line 36), or it is still an empty mapping at line 36, and then the
\* meta property reads path/addon.json itself (lines 40-49).
AddonMetaVariants == {"eager", "lazy", "lazy-empty"}

\* the descriptor file line 30 or line 36 reads
DescriptorRead(variant, mp) == IF variant = "lazy-empty" THEN "addon.json" ELSE mp

\* reading and parsing one descriptor file
AddonMeta(file) ==
    IF file.exists /\ Parseable(file.data)
    THEN [raised |-> FALSE, meta |-> Parse(file.data)]
    ELSE [raised |-> TRUE, meta |-> NoMeta]

\* Addon(path, meta_path): lines 18-36
construct(variant) ==
    LET r == AddonMeta(fs[DescriptorRead(variant, meta_path)])
    IN  /\ ~constructed
        /\ meta' = r.meta
        /\ constructed' = ~r.raised
        /\ lastCall' = [op |-> "construct", raised |-> r.raised, read |-> TRUE,
                        variant |-> variant]
        /\ UNCHANGED <<inventoryVars, meta_path, fs, saving, module, dir, config>>

\* the meta property (lines 38-51) on a constructed Addon: self._meta is set
access_meta ==
    /\ constructed
    /\ ~saving.busy
    /\ lastCall' = [op |-> "meta", raised |-> FALSE, read |-> FALSE, result |-> meta]
    /\ UNCHANGED <<inventoryVars, meta, addonVars>>

\* self._config: obj is the AddonConfig it holds (0 is None), built counts the
\* AddonConfig objects constructed, entries the keys in the persisted store
NoConfig == [obj |-> 0, built |-> 0, entries |-> 0]

\* bool(self._config): AddonConfig is a key/value mapping, an empty one is falsy
Truthy(cfg) == cfg.obj # 0 /\ cfg.entries > 0

\* get_config (lines 116-121)
GetConfig(cfg) ==
    IF ~Truthy(cfg)
    THEN [cfg EXCEPT !.obj = cfg.built + 1, !.built = @ + 1]
    ELSE cfg

ConfigOutcomes == {"ok", "fails"}

\* without the directory AddonConfig(path) may fail or build an object in memory
get_config(outcome) ==
    LET r == GetConfig(config)
    IN  /\ constructed
        /\ ~saving.busy
        /\ r.built <= MaxConfigs
        /\ outcome = "fails" => ~dir /\ r # config
        /\ config' = IF outcome = "ok" THEN r ELSE config
        /\ lastCall' = [op |-> "config", raised |-> outcome = "fails",
                        obj |-> config'.obj, preObj |-> config.obj]
        /\ UNCHANGED <<inventoryVars, meta, meta_path, fs, saving, module, dir, constructed>>

\* the caller stores a key in the AddonConfig it got
config_set ==
    /\ constructed
    /\ ~saving.busy
    /\ dir
    /\ config.obj # 0
    /\ config.entries = 0
    /\ config' = [config EXCEPT !.entries = 1]
    /\ lastCall' = [op |-> "store", raised |-> FALSE]
    /\ UNCHANGED <<inventoryVars, meta, meta_path, fs, saving, module, dir, constructed>>

\* remove (lines 68-73): shutil.rmtree(self.path), then `del self`, which only
\* unbinds the local name: the caller's instance keeps every field
remove ==
    /\ constructed
    /\ ~saving.busy
    /\ dir' = FALSE
    /\ fs' = [f \in Files |-> NoFile]
    /\ lastCall' = [op |-> "remove", raised |-> ~dir]
    /\ UNCHANGED <<inventoryVars, meta, meta_path, saving, module, constructed, config>>

(***************************************************************************)
(* The requirement check and install of one addon, single-threaded.        *)
(***************************************************************************)
\* a constructed Addon in its directory, get_config not called yet
InitInstance ==
    /\ dir = TRUE
    /\ constructed = TRUE
    /\ config = NoConfig

\* only the default dict of the ContextVar exists, no call is in progress
InitObjects ==
    /\ heap = [o \in ObjIds |-> IF o = DefaultObj THEN FreshObject ELSE NoObject]
    /\ cacheObj = [c \in Contexts |-> DefaultObj]
    /\ refresh = [c \in Contexts |-> NotRefreshing]
    /\ held = NothingHeld

Init ==
    /\ pip \in Dicts
    /\ installed_libraries = [c \in Contexts |-> EmptyDict]
    /\ history = [c \in Contexts |-> NoHistory]
    /\ meta \in Metas({"enabled"}, RequirementLists)
    /\ meta_path = "addon.json"
    /\ fs = [f \in Files |-> IF f = meta_path THEN FileOf(Serialize(meta)) ELSE NoFile]
    /\ saving = Idle
    /\ module = Unloaded
    /\ lastCall = [op |-> "none"]
    /\ InitInstance
    /\ InitObjects
    /\ cycle = CycleOff

Next ==
    \/ \E force \in BOOLEAN, outcome \in QueryOutcomes :
           get_installed_libraries("main", force, outcome)
    \/ \E alert \in BOOLEAN, outcome \in QueryOutcomes :
           check_requirements("main", alert, outcome)
    \/ \E out \in InstallerOutputs, k \in 0..MaxReqs :
           install_requirements("main", out, k)
    \/ \E lib \in Libs, v \in PipVersions : PipInstalls(lib, v)
    \/ \E lib \in Libs : PipUninstalls(lib)

Spec == Init /\ [][Next]_vars

(***************************************************************************)
(* One Addon instance: its descriptor and its module handle. The Addon is  *)
(* constructed from the default descriptor path or from an explicit        *)
(* meta_path; path/addon.json may or may not exist beside an explicit one. *)
(***************************************************************************)
AddonRequirementLists == UNION {[1..n -> Requirements] : n \in 0..1}

InitAddon ==
    /\ pip = EmptyDict
    /\ installed_libraries = [c \in Contexts |-> EmptyDict]
    /\ history = [c \in Contexts |-> NoHistory]
    /\ meta \in Metas(Statuses, AddonRequirementLists)
    /\ meta_path \in Files
    /\ \E other \in {NoFile} \cup {FileOf(Serialize(m)) : m \in Metas(Statuses, {<<>>})} :
           fs = [f \in Files |-> IF f = meta_path THEN FileOf(Serialize(meta)) ELSE other]
    /\ meta_path = "addon.json" => fs["meta.json"] = NoFile
    /\ saving = Idle
    /\ module = Unloaded
    /\ lastCall = [op |-> "none"]
    /\ InitInstance
    /\ InitObjects
    /\ cycle = CycleOff

NextAddon ==
    \/ enable
    \/ disable
    \/ save_write
    \/ save_fails
    \/ \E outcome \in LoaderOutcomes : get_module(outcome)
    \/ \E loadOutcome, reloadOutcome \in LoaderOutcomes :
           reload_module(loadOutcome, reloadOutcome)

SpecAddon == InitAddon /\ [][NextAddon]_vars

(***************************************************************************)
(* The life of one Addon from before its construction to after remove().   *)
(***************************************************************************)
Descriptors == {NoFile} \cup {FileOf(Serialize(m)) : m \in Metas(Statuses, {<<>>})}

InitLifecycle ==
    /\ pip = EmptyDict
    /\ installed_libraries = [c \in Contexts |-> EmptyDict]
    /\ history = [c \in Contexts |-> NoHistory]
    /\ meta = NoMeta
    /\ meta_path \in Files
    /\ fs \in [Files -> Descriptors]
    /\ meta_path = "addon.json" => fs["meta.json"] = NoFile
    /\ saving = Idle
    /\ module = Unloaded
    /\ lastCall = [op |-> "none"]
    /\ dir = TRUE
    /\ constructed = FALSE
    /\ config = NoConfig
    /\ InitObjects
    /\ cycle = CycleOff

NextLifecycle ==
    \/ \E variant \in AddonMetaVariants : construct(variant)
    \/ access_meta
    \/ \E outcome \in ConfigOutcomes : get_config(outcome)
    \/ config_set
    \/ remove
    \/ enable
    \/ disable
    \/ save_write
    \/ save_fails
    \/ \E outcome \in LoaderOutcomes : get_module(outcome)
    \/ \E loadOutcome, reloadOutcome \in LoaderOutcomes :
           reload_module(loadOutcome, reloadOutcome)

SpecLifecycle == InitLifecycle /\ [][NextLifecycle]_vars

(***************************************************************************)
(* Two contexts list the installed libraries while libraries are being     *)
(* uninstalled.                                                            *)
(***************************************************************************)
ThreadOutcomes == {"ok", "malformed"}

InitThreads ==
    /\ pip \in {d \in Dicts : DOMAIN d = Libs}
    /\ installed_libraries = [c \in Contexts |-> EmptyDict]
    /\ history = [c \in Contexts |-> NoHistory]
    /\ meta \in Metas({"enabled"}, {<<>>})
    /\ meta_path = "addon.json"
    /\ fs = [f \in Files |-> IF f = meta_path THEN FileOf(Serialize(meta)) ELSE NoFile]
    /\ saving = Idle
    /\ module = Unloaded
    /\ lastCall = [op |-> "none"]
    /\ InitInstance
    /\ InitObjects
    /\ cycle = CycleOff

NextThreads ==
    \/ \E c \in Contexts, force \in BOOLEAN, outcome \in ThreadOutcomes, keep \in BOOLEAN :
           list_begin(c, force, outcome, keep)
    \/ \E c \in Contexts : list_line(c)
    \/ \E c \in Contexts, keep \in BOOLEAN : list_commit(c, keep)
    \/ \E lib \in Libs : PipUninstalls(lib)

SpecThreads == InitThreads /\ [][NextThreads]_vars

(***************************************************************************)
(* The check, install and list calls of one context from any cache and any *)
(* installed set, the package manager's set changing only through the      *)
(* installs of the program.                                                *)
(***************************************************************************)
InitCycle ==
    /\ pip \in Dicts
    /\ \E cache \in Dicts :
           /\ installed_libraries = [c \in Contexts |-> IF c = "main" THEN cache ELSE EmptyDict]
           /\ history = [c \in Contexts |->
                  IF c = "main" /\ cache # EmptyDict
                  THEN [NoHistory EXCEPT !.listed = TRUE, !.map = cache]
                  ELSE NoHistory]
    /\ meta \in Metas({"enabled"}, RequirementLists)
    /\ meta_path = "addon.json"
    /\ fs = [f \in Files |-> IF f = meta_path THEN FileOf(Serialize(meta)) ELSE NoFile]
    /\ saving = Idle
    /\ module = Unloaded
    /\ lastCall = [op |-> "none"]
    /\ InitInstance
    /\ InitObjects
    /\ cycle = CycleStart

NextCycle ==
    \/ \E force \in BOOLEAN, outcome \in QueryOutcomes :
           get_installed_libraries("main", force, outcome)
    \/ \E outcome \in QueryOutcomes :
           check_requirements("main", FALSE, outcome)
    \/ \E out \in InstallerOutputs, k \in 0..MaxReqs :
           install_requirements("main", out, k)

SpecCycle == InitCycle /\ [][NextCycle]_vars

(***************************************************************************)
(* Requirement check against requirement install.                          *)
(***************************************************************************)
SuccessOutput == <<"Collecting ...", "Successfully installed">>

\* C1: in whatever state the process is, the first included, check_requirements()
\* returns true exactly when install_requirements() returns the empty list (both
\* taken with a package manager that answers and reports no error).
C1_CheckTrueIffInstallEmpty ==
    LET cache == installed_libraries["main"]
        chk == CheckRequirements(meta, cache, FALSE, PipFreeze(pip, "ok"))
        ins == InstallLibraries(meta.requirements, cache, SuccessOutput)
    IN  chk.result <=> (ins.result = <<>>)

(***************************************************************************)
(* The names the resolver collects.                                        *)
(***************************************************************************)
Unsatisfied(requirement, inventory) ==
    \/ lower(requirement.name) \notin DOMAIN inventory
    \/ ~check_version(requirement.version, inventory[lower(requirement.name)])

ExpectedAction(requirement) ==
    IF requirement.version = "*"
    THEN lower(requirement.name)
    ELSE lower(requirement.name) \o "==" \o requirement.version

CollectedNames == IF lastCall.batches = <<>> THEN <<>> ELSE lastCall.batches[1]

\* C2: the names install_libraries collects hold nothing for a requirement the
\* cached inventory satisfies and one action for each requirement that is absent
\* from it or present at an unsatisfying version, in the requirements' order;
\* the action is the lower-cased name, with ==<version> exactly when the
\* constraint is not "*".
C2_ResolveEmitsUnsatisfiedInOrder ==
    lastCall.op = "install" =>
        LET reqs == meta.requirements
            unsat == {i \in 1..Len(reqs) : Unsatisfied(reqs[i], lastCall.pre)}
            nth(j) == CHOOSE i \in unsat : Cardinality({k \in unsat : k < i}) = j - 1
        IN  /\ Len(CollectedNames) = Cardinality(unsat)
            /\ \A j \in 1..Len(CollectedNames) :
                   CollectedNames[j] = ExpectedAction(reqs[nth(j)])

\* two requirements, one absent and one at an unsatisfying version, one satisfied
\* constraint-free requirement aside: both emitted, in order
C2_Witness ==
    /\ lastCall.op = "install"
    /\ Len(meta.requirements) = 2
    /\ CollectedNames = <<"foo==1.2.0", "bar">>
    /\ "foo" \in DOMAIN lastCall.pre

\* a satisfied requirement between the calls: nothing emitted for it
C2_WitnessSatisfied ==
    /\ lastCall.op = "install"
    /\ Len(meta.requirements) = 2
    /\ Len(CollectedNames) = 1

(***************************************************************************)
(* The cache over a sequence of list calls.                                *)
(***************************************************************************)
\* C3: once a list call has completed, every later non-forced call (until a
\* forced one) returns the mapping that call returned and does not query the
\* package manager, whatever set the manager reported, the empty one included.
C3_NonForcedListStable ==
    (lastCall.op = "list" /\ ~lastCall.force /\ lastCall.before.listed) =>
        /\ ~lastCall.raised
        /\ ~lastCall.queried
        /\ lastCall.result = lastCall.before.map

C10_ErrorMarkerAborts ==
    lastCall.op = "install" =>
        /\ (lastCall.batches # <<>> /\ HasErrorMarker(lastCall.out)) =>
               /\ lastCall.raised
               /\ lastCall.result = <<>>
               /\ Len(lastCall.message) = Len(lastCall.out) + 1
               /\ SubSeq(lastCall.message, 2, Len(lastCall.message)) = lastCall.out
        /\ ~HasErrorMarker(lastCall.out) =>
               /\ ~lastCall.raised
               /\ lastCall.result = CollectedNames

\* a batch whose output carried the marker
C10_Witness ==
    /\ lastCall.op = "install"
    /\ lastCall.raised
    /\ Len(lastCall.batches[1]) = 2

(***************************************************************************)
(* The descriptor file under enable() and disable().                       *)
(***************************************************************************)
\* C6: while enable() or disable() saves the descriptor, and after a save that
\* failed part-way, the file holds the complete content it had before the call
\* or the complete new content, never an empty or partial document; after a
\* failed save it holds the content it had before the call.
C6_SaveIsAtomic ==
    lastCall.op \in {"enable", "disable"} =>
        LET target == SaveTarget(meta_path)
            old == lastCall.preFiles[target]
        IN  /\ fs[target] \in {old, FileOf(Serialize(meta))}
            /\ lastCall.raised => fs[target] = old

\* C7: after a completed enable() or disable(), the in-memory status is the one
\* the call set, and the file the metadata was read from (path/addon.json or the
\* meta_path given) holds the descriptor with that status and every other field
\* as it was.
C7_DescriptorHoldsLastStatus ==
    (lastCall.op \in {"enable", "disable"} /\ lastCall.done) =>
        /\ meta.status = lastCall.status
        /\ fs[meta_path].exists
        /\ Parseable(fs[meta_path].data)
        /\ Parse(fs[meta_path].data) = [lastCall.preMeta EXCEPT !.status = lastCall.status]

(***************************************************************************)
(* The module handle under load and reload.                                *)
(***************************************************************************)
\* C8: a load on a loaded handle returns the unit it holds and executes nothing,
\* so that loading executes the unit once over any sequence of calls; a
\* reload_module() that returns has re-executed the unit once and leaves the
\* handle loaded.
C8_LoadIsIdempotent ==
    /\ module.imports = (IF module.loaded THEN 1 ELSE 0)
    /\ (lastCall.op = "load" /\ lastCall.pre.loaded) =>
           /\ ~lastCall.raised
           /\ module = lastCall.pre
    /\ (lastCall.op = "load" /\ ~lastCall.raised) => module.loaded
    /\ (lastCall.op = "reload" /\ ~lastCall.raised) =>
           /\ module.loaded
           /\ module.reexecutions = lastCall.pre.reexecutions + 1

\* a load on a handle that a reload has left loaded
C8_Witness ==
    /\ lastCall.op = "load"
    /\ lastCall.pre.loaded
    /\ lastCall.pre.reexecutions > 0

\* C9: reload_module() on an unloaded handle loads the unit and then re-executes
\* it: with a unit that loads and re-executes it does not raise and ends loaded,
\* and whatever the unit does, the call ends as get_module() followed by
\* reload_module() ends.
C9_ReloadWhenUnloaded ==
    (lastCall.op = "reload" /\ ~lastCall.pre.loaded) =>
        LET afterLoad == GetModule(lastCall.pre, lastCall.loadOutcome)
            afterBoth == ReloadModule(afterLoad.handle, lastCall.loadOutcome,
                                      lastCall.reloadOutcome)
        IN  /\ (lastCall.loadOutcome = "ok" /\ lastCall.reloadOutcome = "ok") =>
                   /\ ~lastCall.raised
                   /\ module.loaded
                   /\ module.imports = 1
                   /\ module.reexecutions = lastCall.pre.reexecutions + 1
            /\ afterLoad.raised => (lastCall.raised /\ module = lastCall.pre)
            /\ ~afterLoad.raised =>
                   (lastCall.raised = afterBoth.raised /\ module = afterBoth.handle)

\* a reload that found the handle unloaded and returned
C9_Witness ==
    /\ lastCall.op = "reload"
    /\ ~lastCall.pre.loaded
    /\ ~lastCall.raised
    /\ module.loaded

(***************************************************************************)
(* The installer invocations of one install_requirements call.             *)
(***************************************************************************)
\* C11: one install_requirements call runs the installer at most once, with every
\* emitted specifier in that one batch, and not at all when nothing is emitted;
\* the list it returns is the batch it passed.
C11_OneBatchPerCall ==
    lastCall.op = "install" =>
        LET reqs == meta.requirements
            unsat == {i \in 1..Len(reqs) : Unsatisfied(reqs[i], lastCall.pre)}
        IN  /\ Len(lastCall.batches) <= 1
            /\ (lastCall.batches = <<>>) <=> (unsat = {})
            /\ lastCall.batches # <<>> =>
                   Len(lastCall.batches[1]) = Cardinality(unsat)
            /\ ~lastCall.raised =>
                   lastCall.result = (IF lastCall.batches = <<>> THEN <<>>
                                      ELSE lastCall.batches[1])

\* a call that returned after one installer run with two specifiers
C11_Witness ==
    /\ lastCall.op = "install"
    /\ ~lastCall.raised
    /\ Len(lastCall.batches) = 1
    /\ Len(lastCall.batches[1]) = 2
    /\ lastCall.result = lastCall.batches[1]

(***************************************************************************)
(* What check_requirements returns.                                        *)
(***************************************************************************)
\* C14: check_requirements raises only when the inventory query fails, never for
\* an unmet requirement; it returns true exactly when every declared requirement
\* is in the inventory at a satisfying version, whatever alert is; with alert it
\* adds one warning for the unmet requirement that ended the check, without it
\* none.
C14_CheckReturnsBoolean ==
    lastCall.op = "check" =>
        LET reqs == meta.requirements
            inventory == installed_libraries[lastCall.ctx]
            unsat == {i \in 1..Len(reqs) : Unsatisfied(reqs[i], inventory)}
        IN  /\ lastCall.raised => lastCall.queried
            /\ ~lastCall.raised =>
                   /\ lastCall.result \in BOOLEAN
                   /\ lastCall.result <=> (unsat = {})
                   /\ Len(lastCall.warnings) =
                          (IF lastCall.alert /\ unsat # {} THEN 1 ELSE 0)
                   /\ \A w \in 1..Len(lastCall.warnings) :
                          \E i \in unsat :
                              /\ \A j \in unsat : i <= j
                              /\ lastCall.warnings[w].addon = meta.name
                              /\ lastCall.warnings[w].library = reqs[i].name
                              /\ lastCall.warnings[w].required = reqs[i].version

\* a check without alert that returned false for an unmet requirement
C14_Witness ==
    /\ lastCall.op = "check"
    /\ ~lastCall.raised
    /\ ~lastCall.alert
    /\ ~lastCall.result
    /\ Len(meta.requirements) = 2

(***************************************************************************)
(* The snapshot while a refresh is in progress.                            *)
(***************************************************************************)
\* C12: what a reader gets from the ContextVar of any context, or holds from
\* an earlier call, is at every moment of a refresh a whole snapshot: the
\* mapping the context's latest completed call set (the previous snapshot) until
\* the refresh sets the new one, which holds every entry of the query output. The
\* dict a refresh is filling is one no reader can reach, and a mapping handed to
\* a caller never changes afterwards.
C12_SnapshotSwappedWhole ==
    /\ \A c \in Contexts :
           /\ heap[cacheObj[c]].used
           /\ heap[cacheObj[c]].complete
           /\ heap[cacheObj[c]].data = installed_libraries[c]
           /\ refresh[c].pc = "parsing" =>
                  /\ \A x \in Contexts : cacheObj[x] # refresh[c].libs
                  /\ held.any => held.ref # refresh[c].libs
                  /\ ParseLines(refresh[c].lines, heap[refresh[c].libs].data)
                         = ParseLines(refresh[c].output, EmptyDict)
    /\ held.any =>
           /\ heap[held.ref].used
           /\ heap[held.ref].complete
           /\ heap[held.ref].data = held.seen

\* a refresh has parsed one line of two while a caller still holds the
\* previous snapshot of that context, which has entries the new one will not have
C12_Witness ==
    \E c \in Contexts :
        /\ refresh[c].pc = "parsing"
        /\ Len(refresh[c].lines) = 1
        /\ Len(refresh[c].output) = 2
        /\ Cardinality(DOMAIN heap[refresh[c].libs].data) = 1
        /\ held.any
        /\ held.ref = cacheObj[c]
        /\ Cardinality(DOMAIN held.seen) = 2

\* C13: the cache is one state for the whole process: a non-forced list made
\* while another context holds a snapshot with entries does not run the query.
C13_CacheIsProcessWide ==
    (lastCall.op = "list" /\ ~lastCall.force /\ lastCall.shared) => ~lastCall.queried

(***************************************************************************)
(* The Addon instance: removal, construction, config.                      *)
(***************************************************************************)
\* C15: after remove() no file of the addon exists, and every later call on the
\* instance (metadata access, enable, disable, get_config, load, reload) fails.
C15_RemoveInvalidates ==
    ~dir =>
        /\ \A f \in Files : ~fs[f].exists
        /\ lastCall.op \in {"meta", "enable", "disable", "config", "load", "reload"}
               => lastCall.raised

\* C16: constructing an Addon reads no descriptor and does not fail for a
\* missing one.
C16_ConstructionReadsNothing ==
    lastCall.op = "construct" => ~lastCall.read /\ ~lastCall.raised

\* C17: every get_config() after the first returns the AddonConfig the first
\* one built, and one Addon builds at most one AddonConfig.
C17_OneConfigPerAddon ==
    /\ config.built <= 1
    /\ (lastCall.op = "config" /\ ~lastCall.raised /\ lastCall.preObj # 0)
           => lastCall.obj = lastCall.preObj

(***************************************************************************)
(* A load or reload that fails.                                            *)
(***************************************************************************)
\* C18: a load or reload that fails raises and leaves the addon usable: after a
\* failed load the handle is unloaded as before, after a failed reload it holds
\* the unit it held, not re-executed; the descriptor in memory and on disk, the
\* config and the inventory caches are as the call found them; and the same call
\* made again succeeds once the loader does.
C18_FailedLoadLeavesAddonUsable ==
    (lastCall.op \in {"load", "reload"} /\ lastCall.raised) =>
        /\ lastCall.op = "load" => module = lastCall.pre /\ ~module.loaded
        /\ (lastCall.op = "reload" /\ lastCall.pre.loaded) => module = lastCall.pre
        /\ module.reexecutions = lastCall.pre.reexecutions
        /\ meta = lastCall.preMeta
        /\ fs = lastCall.preFiles
        /\ config = lastCall.preConfig
        /\ installed_libraries = lastCall.preCache
        /\ ~GetModule(module, "ok").raised
        /\ GetModule(module, "ok").handle.loaded
        /\ ~ReloadModule(module, "ok", "ok").raised
        /\ ReloadModule(module, "ok", "ok").handle.reexecutions = module.reexecutions + 1

\* a reload of a loaded unit has failed and the handle still holds the unit
C18_Witness ==
    /\ lastCall.op = "reload"
    /\ lastCall.raised
    /\ lastCall.pre.loaded
    /\ module.loaded
    /\ module.reexecutions = 1

(***************************************************************************)
(* The install, forced list, check sequence.                               *)
(***************************************************************************)
\* in this state check_requirements returns true whatever alert is, and
\* install_requirements, before or after it, hands nothing to the installer and
\* returns the empty list
Converged ==
    LET cache == installed_libraries["main"]
        ins == InstallLibraries(meta.requirements, cache, SuccessOutput)
    IN  /\ ~ins.raised /\ ins.batches = <<>> /\ ins.result = <<>>
        /\ \A alert \in BOOLEAN :
               LET chk == CheckRequirements(meta, cache, alert, PipFreeze(pip, "ok"))
                   after == InstallLibraries(meta.requirements, chk.cache, SuccessOutput)
               IN  /\ ~chk.raised /\ chk.result
                   /\ ~after.raised /\ after.batches = <<>> /\ after.result = <<>>

\* the calls made since the forced list: every check returned true, every
\* install returned the empty list without a batch
ConvergedCalls ==
    /\ (lastCall.op = "check" /\ ~lastCall.raised) => lastCall.result
    /\ lastCall.op = "install" =>
           ~lastCall.raised /\ lastCall.batches = <<>> /\ lastCall.result = <<>>

\* C19 as stated: from any state, an install_requirements() that returns,
\* followed by a forced list that returns, leads to a state where
\* check_requirements() returns true and install_requirements() returns the empty
\* list without running the installer.
C19_CycleConverges ==
    cycle.phase = "refreshed" => Converged /\ ConvergedCalls

\* C19, amended: the same from any state in which every requirement that the
\* cached inventory satisfies is also satisfied by the package manager's
\* installed set (an empty cache and a cache that equals the installed set are
\* such states).
C19_CycleConvergesFromSoundCache ==
    (cycle.phase = "refreshed" /\ cycle.sound) => Converged /\ ConvergedCalls

\* after an install that handed a batch to the installer and a forced list, a
\* check has returned true
C19_Witness ==
    /\ cycle.phase = "refreshed"
    /\ cycle.sound
    /\ cycle.emitted
    /\ lastCall.op = "check"
    /\ ~lastCall.raised
    /\ lastCall.result
    /\ Len(meta.requirements) = 2

====
